---- MODULE Spec2Model ----
(***************************************************************************)
(* Model of generate_transit.py: the daily transit generator.              *)
(*                                                                         *)
(* Angles are fixed-point integers.  A raw ephemeris longitude or speed is *)
(* an integer number of 1/100000 degree; a stored longitude or speed       *)
(* (round(x, 4)) is an integer number of 1/10000 degree; a stored degree   *)
(* within the sign and a recorded orb (round(x, 2)) are integer numbers of *)
(* 1/100 degree.  Arithmetic on these integers is exact; the direction in  *)
(* which round() resolves a value that lies halfway between two results    *)
(* depends on the binary representation of the float and is the variable   *)
(* tieUp.                                                                  *)
(***************************************************************************)
EXTENDS Integers, Sequences, FiniteSets, TLC

VARIABLES
    pc,            \* position of the process in main()
    sky,           \* the ephemeris of this process (parameters of Ephemeris)
    tieUp,         \* how round() resolves a halfway value
    today,         \* main: today
    i,             \* main: loop index of "for i in range(7)"
    all_transits,  \* main: all_transits
    folder_id,     \* main: os.environ.get('FOLDER_ID'), "unread" before
    creds_json,    \* upload_to_drive: os.environ.get('GOOGLE_CREDENTIALS')
    fs,            \* local files: name -> content
    remote,        \* the remote store: set of entries
    nextId,        \* next identifier the remote store hands out
    listed,        \* upload_to_drive: listed entries not yet deleted
    remoteLog,     \* remote calls made by this run, in order
    outcome,       \* "running", "success" or "error"
    exc,           \* the exception that ended the run, or "none"
    wrote,         \* whether this run completed its local write
    fsAtStart,     \* local files when this run started
    remote0,       \* the remote store before the first run
    runs           \* number of runs started

vars == <<pc, sky, tieUp, today, i, all_transits, folder_id, creds_json, fs,
          remote, nextId, listed, remoteLog, outcome, exc, wrote, fsAtStart,
          remote0, runs>>

(***************************************************************************)
(* Bounds of the model.                                                    *)
(***************************************************************************)
\* number of consecutive runs of main() that are explored
MaxRuns == 2
\* number of entries the remote store may hold before the first run
MaxRemote == 2
\* number of sample longitudes (a prefix of LonSamples) the two varied
\* bodies are placed at
NSamples == 15

(***************************************************************************)
(* Units.                                                                  *)
(***************************************************************************)
\* raw units per stored unit: resolution of the ephemeris floats
RawPerStored == 10
\* stored units per degree: round(longitude, 4), round(speed, 4)
StoredPerDeg == 10000
\* hundredths per degree: round(degree, 2), round(orb, 2)
HundPerDeg == 100
RawPerDeg == RawPerStored * StoredPerDeg
RawPerHund == RawPerDeg \div HundPerDeg
StoredPerHund == StoredPerDeg \div HundPerDeg

Abs(x) == IF x < 0 THEN -x ELSE x

\* round(): x in units of 1/q of the result unit, to the nearest result unit;
\* a halfway value goes up when up, down otherwise
Round(x, q, up) ==
    LET f == x \div q
        r == x % q
    IN  IF 2 * r < q THEN f
        ELSE IF 2 * r > q THEN f + 1
        ELSE IF up THEN f + 1 ELSE f

(***************************************************************************)
(* PLANETS and SIGNS.                                                      *)
(***************************************************************************)
PLANETS ==
    <<"Sun", "Moon", "Mercury", "Venus", "Mars", "Jupiter", "Saturn",
      "Uranus", "Neptune", "Pluto", "NorthNode">>

\* the twelve sign names of SIGNS, transliterated
SIGNS ==
    <<"Aries", "Taurus", "Gemini", "Cancer", "Leo", "Virgo",
      "Libra", "Scorpio", "Sagittarius", "Capricorn", "Aquarius", "Pisces">>

\* get_sign(longitude), longitude raw: <<sign, degree_in_sign>>, degree raw
get_sign(longitude) ==
    LET sign_num == longitude \div (30 * RawPerDeg)
        degree_in_sign == longitude % (30 * RawPerDeg)
    IN  <<SIGNS[sign_num + 1], degree_in_sign>>

(***************************************************************************)
(* Dates.                                                                  *)
(***************************************************************************)
IsLeap(y) == (y % 4 = 0 /\ y % 100 # 0) \/ y % 400 = 0

DaysInMonth(y, m) ==
    IF m = 2 THEN (IF IsLeap(y) THEN 29 ELSE 28)
    ELSE IF m \in {4, 6, 9, 11} THEN 30 ELSE 31

NextDay(date) ==
    IF date.d < DaysInMonth(date.y, date.m)
    THEN [date EXCEPT !.d = date.d + 1]
    ELSE IF date.m < 12
    THEN [y |-> date.y, m |-> date.m + 1, d |-> 1]
    ELSE [y |-> date.y + 1, m |-> 1, d |-> 1]

RECURSIVE AddDays(_, _)
\* date + timedelta(days=n)
AddDays(date, n) == IF n = 0 THEN date ELSE AddDays(NextDay(date), n - 1)

\* date.strftime('%Y-%m-%d'): the three zero-padded fields
IsoDate(date) == <<date.y, date.m, date.d>>

\* today.strftime('%Y%m%d'): the eight digits, read as a number
Stamp(date) == date.y * 10000 + date.m * 100 + date.d

\* swe.julday(year, month, day, 12.0): the Julian day number at noon
JulDay(date) ==
    LET a == (14 - date.m) \div 12
        yy == date.y + 4800 - a
        mm == date.m + 12 * a - 3
    IN  date.d + (153 * mm + 2) \div 5 + 365 * yy + yy \div 4
        - yy \div 100 + yy \div 400 - 32045

(***************************************************************************)
(* The ephemeris provider: swe.calc_ut(jd, planet_id).                     *)
(***************************************************************************)
EpochDate == [y |-> 2024, m |-> 1, d |-> 1]

\* raw longitude of each body of PLANETS at noon of EpochDate
BaseLon ==
    <<28012345, 13345678, 26250000, 24000000, 27012340, 3500000,
      33312345, 4912345, 35512350, 30012345, 2000000>>

\* raw daily speed of each body of PLANETS
BaseSpeed ==
    <<98560, 1317640, -52000, 120000, 52400, 8310, 3350, 0, 600, 400, -5295>>

\* raw longitudes the varied bodies are placed at
LonSamples ==
    <<0, 1000000, 1000490, 1800000, 1800010, 4700000, 6600000, 9500000,
      13000000, 18300000, 35600000, 35999996, 2999600, 35999995, 1000500,
      18800004>>

SampleSet == {LonSamples[k] : k \in 1..(IF NSamples < Len(LonSamples)
                                          THEN NSamples ELSE Len(LonSamples))}

BodyIndex(name) == CHOOSE k \in 1..Len(PLANETS) : PLANETS[k] = name

\* the raw longitude of body b at noon of EpochDate under the sky s
LonAtEpoch(s, b) ==
    IF b = s.p THEN s.lp ELSE IF b = s.q THEN s.lq ELSE BaseLon[b]

\* result[0][0] and result[0][3] of swe.calc_ut(jd, planet_id)
Ephemeris(s, jd, b) ==
    [lon   |-> (LonAtEpoch(s, b) + BaseSpeed[b] * (jd - JulDay(EpochDate)))
                   % (360 * RawPerDeg),
     speed |-> BaseSpeed[b]]

(***************************************************************************)
(* calculate_aspects.                                                      *)
(***************************************************************************)
\* aspect_types with the orb of the sextile widened to 8
aspect_types_wide ==
    <<[name |-> "conjunction", angle |-> 0,   orb |-> 8],
      [name |-> "sextile",     angle |-> 60,  orb |-> 8],
      [name |-> "square",      angle |-> 90,  orb |-> 8],
      [name |-> "trine",       angle |-> 120, orb |-> 8],
      [name |-> "opposition",  angle |-> 180, orb |-> 8]>>

\* aspect_types, in the order of the dict literal; angle and orb in degrees
aspect_types ==
    <<[name |-> "conjunction", angle |-> 0,   orb |-> 8],
      [name |-> "sextile",     angle |-> 60,  orb |-> 6],
      [name |-> "square",      angle |-> 90,  orb |-> 8],
      [name |-> "trine",       angle |-> 120, orb |-> 8],
      [name |-> "opposition",  angle |-> 180, orb |-> 8]>>

\* Separation without abs(): diff = lon1 - lon2
SeparationSigned(lon1, lon2) ==
    LET diff == lon1 - lon2
    IN  IF diff > 180 * StoredPerDeg THEN 360 * StoredPerDeg - diff ELSE diff

\* diff = abs(lon1 - lon2); if diff > 180: diff = 360 - diff   (stored units)
Separation(lon1, lon2) ==
    LET diff == Abs(lon1 - lon2)
    IN  IF diff > 180 * StoredPerDeg THEN 360 * StoredPerDeg - diff ELSE diff

RECURSIVE MatchFrom(_, _, _, _, _)
\* the loop over aspect_types from index k on, for the pair (p1, p2):
\* the record appended at the first match, then break
MatchFrom(k, p1, p2, diff, up) ==
    IF k > Len(aspect_types) THEN <<>>
    ELSE IF Abs(diff - aspect_types[k].angle * StoredPerDeg)
                <= aspect_types[k].orb * StoredPerDeg
    THEN <<[planet1 |-> p1, planet2 |-> p2, aspect |-> aspect_types[k].name,
            orb |-> Round(Abs(diff - aspect_types[k].angle * StoredPerDeg),
                          StoredPerHund, up)]>>
    ELSE MatchFrom(k + 1, p1, p2, diff, up)

\* the slice planet_names[i:], which pairs a body with itself
InnerFromSelf(k) == k

\* the slice planet_names[i+1:] of the inner loop, i the 1-based index of p1
InnerFrom(k) == k + 1

RECURSIVE AspectLoop(_, _, _, _, _)
\* the two nested loops from the pair of indices (a, b) on
AspectLoop(planet_names, planets, a, b, up) ==
    IF a > Len(planet_names) THEN <<>>
    ELSE IF b > Len(planet_names)
    THEN AspectLoop(planet_names, planets, a + 1, InnerFrom(a + 1), up)
    ELSE MatchFrom(1, planet_names[a], planet_names[b],
                   Separation(planets[planet_names[a]].longitude,
                              planets[planet_names[b]].longitude), up)
         \o AspectLoop(planet_names, planets, a, b + 1, up)

\* calculate_aspects(planets); planet_names = list(planets.keys())
calculate_aspects(planet_names, planets, up) ==
    AspectLoop(planet_names, planets, 1, InnerFrom(1), up)

(***************************************************************************)
(* calculate_transit.                                                      *)
(***************************************************************************)
\* the PositionRecord stored for one body
PositionRecord(s, jd, b, up) ==
    LET result == Ephemeris(s, jd, b)
        longitude == result.lon
        speed == result.speed
        sd == get_sign(longitude)
    IN  [longitude  |-> Round(longitude, RawPerStored, up),
         sign       |-> sd[1],
         degree     |-> Round(sd[2], RawPerHund, up),
         retrograde |-> speed < 0,
         speed      |-> Round(speed, RawPerStored, up)]

\* calculate_transit(date) when every ephemeris lookup succeeds
calculate_transit(s, date, up) ==
    LET jd == JulDay(date)
        names == {PLANETS[k] : k \in 1..Len(PLANETS)}
        planets == [n \in names |-> PositionRecord(s, jd, BodyIndex(n), up)]
    IN  [date    |-> IsoDate(date),
         planets |-> planets,
         aspects |-> calculate_aspects(PLANETS, planets, up)]

(***************************************************************************)
(* Local files and the remote store.                                       *)
(***************************************************************************)
\* the fixed substring of the list query: name contains 'transit_'
Marker == "transit_"

\* f"transit_{today.strftime('%Y%m%d')}.json": the text before the digits,
\* cut into pieces, the digits, and the extension
Filename(date) == [stem |-> <<Marker>>, stamp |-> Stamp(date), ext |-> ".json"]

\* name contains 'transit_'
NameContains(name) == \E k \in DOMAIN name.stem : name.stem[k] = Marker

\* the entries the query "'<folder_id>' in parents and name contains
\* 'transit_'" selects
Matching(entries) ==
    {e \in entries : e.parent = "target" /\ NameContains(e.name)}

\* the result of a query that leaves the name condition out
ListResultWholeFolder(entries) == {e \in entries : e.parent = "target"}

\* results.get('files', []) of the list call
ListResult(entries) == Matching(entries)

\* json.dump(all_transits, f, ensure_ascii=False, indent=2): the document
Dump(transits) == [encoding |-> "utf-8", indent |-> 2, doc |-> transits]

\* the content left by open(filename, 'w') when the write does not complete
Truncated == [encoding |-> "utf-8", indent |-> 2, doc |-> <<>>]

\* open(filename, 'w') ... json.dump: the file system after the write
WriteTo(files, name, content) ==
    [n \in DOMAIN files \cup {name} |-> IF n = name THEN content ELSE files[n]]

\* entries the remote store may hold before the first run
Pool ==
    {[id |-> 1, parent |-> "target",
      name |-> [stem |-> <<Marker>>, stamp |-> 20231231, ext |-> ".json"]],
     [id |-> 2, parent |-> "target",
      name |-> [stem |-> <<"notes">>, stamp |-> 0, ext |-> ".txt"]],
     [id |-> 3, parent |-> "other",
      name |-> [stem |-> <<Marker>>, stamp |-> 20240101, ext |-> ".json"]],
     [id |-> 4, parent |-> "target",
      name |-> [stem |-> <<Marker>>, stamp |-> 20230101, ext |-> ".json"]]}

\* datetime.utcnow() of the first run
StartDates ==
    {[y |-> 2024, m |-> 2, d |-> 26], [y |-> 2023, m |-> 2, d |-> 25],
     [y |-> 2024, m |-> 12, d |-> 28]}

\* what os.environ.get('FOLDER_ID') may return: None, '' or an identifier
FolderValues == {"absent", "empty", "set"}

\* what os.environ.get('GOOGLE_CREDENTIALS') may return: None, a blob that is
\* no service-account credential, or one that is
CredsValues == {"absent", "invalid", "valid"}

\* the sky with no body moved from BaseLon
BaseSky == [p |-> 1, q |-> 2, lp |-> BaseLon[1], lq |-> BaseLon[2]]

\* the skies of the runs of main
MainSkies == {BaseSky}

\* how round() resolves a halfway value in the runs of main
MainTies == {FALSE}

\* the bodies of PLANETS that are moved from BaseLon: Sun, Moon, Mercury and
\* NorthNode
VariedBodies == {1, 2, 3, Len(PLANETS)}

\* the skies calculate_transit is applied to on its own: two bodies p < q of
\* VariedBodies placed at sample longitudes
CalcSkies ==
    {s \in [p : VariedBodies, q : VariedBodies,
            lp : SampleSet, lq : SampleSet] : s.p < s.q}

LogCall(op, target, ok) == [op |-> op, target |-> target, ok |-> ok]

(***************************************************************************)
(* Initial states.                                                         *)
(***************************************************************************)
InitCommon ==
    /\ i = 0
    /\ all_transits = <<>>
    /\ folder_id = "unread"
    /\ creds_json = "unread"
    /\ fs = <<>>
    /\ nextId = 100
    /\ listed = {}
    /\ remoteLog = <<>>
    /\ outcome = "running"
    /\ exc = "none"
    /\ wrote = FALSE
    /\ fsAtStart = fs
    /\ remote0 = remote
    /\ runs = 1

Init ==
    /\ pc = "loop"
    /\ sky \in MainSkies
    /\ tieUp \in MainTies
    /\ today \in StartDates
    /\ remote \in {r \in SUBSET Pool : Cardinality(r) <= MaxRemote}
    /\ InitCommon

InitCalc ==
    /\ pc = "calc"
    /\ sky \in CalcSkies
    /\ tieUp \in BOOLEAN
    /\ today = EpochDate
    /\ remote = {}
    /\ InitCommon

(***************************************************************************)
(* main.                                                                   *)
(***************************************************************************)
\* the run ends with exception e propagating out of main
Raise(e) ==
    /\ pc' = "done"
    /\ outcome' = "error"
    /\ exc' = e

\* date = today + timedelta(days=i + 1)
LoopDateFromTomorrow(t, k) == AddDays(t, k + 1)

\* date = today + timedelta(days=i)
LoopDate(t, k) == AddDays(t, k)

\* CalcDay that also writes the days computed so far to the output file
CalcDayIncremental ==
    /\ pc = "loop"
    /\ i < 7
    /\ all_transits' =
           Append(all_transits,
                  calculate_transit(sky, LoopDate(today, i), tieUp))
    /\ fs' = WriteTo(fs, Filename(today), Dump(all_transits'))
    /\ i' = i + 1
    /\ pc' = IF i + 1 < 7 THEN "loop" ELSE "write"
    /\ UNCHANGED <<sky, tieUp, today, folder_id, creds_json, remote, nextId,
                   listed, remoteLog, outcome, exc, wrote, fsAtStart, remote0,
                   runs>>

\* one iteration of "for i in range(7)" in which calculate_transit returns
CalcDay ==
    /\ pc = "loop"
    /\ i < 7
    /\ all_transits' =
           Append(all_transits,
                  calculate_transit(sky, LoopDate(today, i), tieUp))
    /\ i' = i + 1
    /\ pc' = IF i + 1 < 7 THEN "loop" ELSE "write"
    /\ UNCHANGED <<sky, tieUp, today, folder_id, creds_json, fs, remote,
                   nextId, listed, remoteLog, outcome, exc, wrote, fsAtStart,
                   remote0, runs>>

\* one iteration in which swe.calc_ut raises for some body
CalcDayFail ==
    /\ pc = "loop"
    /\ i < 7
    /\ Raise("ephemeris")
    /\ UNCHANGED <<sky, tieUp, today, i, all_transits, folder_id, creds_json,
                   fs, remote, nextId, listed, remoteLog, wrote, fsAtStart,
                   remote0, runs>>

\* WriteFile that goes on to publish before the file is closed and complete
WriteFileUnclosed ==
    /\ pc = "write"
    /\ fs' = WriteTo(fs, Filename(today), Truncated)
    /\ wrote' = TRUE
    /\ pc' = "getenv"
    /\ UNCHANGED <<sky, tieUp, today, i, all_transits, folder_id, creds_json,
                   remote, nextId, listed, remoteLog, outcome, exc, fsAtStart,
                   remote0, runs>>

\* with open(filename, 'w', encoding='utf-8') as f: json.dump(...)
WriteFile ==
    /\ pc = "write"
    /\ fs' = WriteTo(fs, Filename(today), Dump(all_transits))
    /\ wrote' = TRUE
    /\ pc' = "getenv"
    /\ UNCHANGED <<sky, tieUp, today, i, all_transits, folder_id, creds_json,
                   remote, nextId, listed, remoteLog, outcome, exc, fsAtStart,
                   remote0, runs>>

\* the write raises: open failed, or the file was opened and is incomplete
WriteFail ==
    /\ pc = "write"
    /\ \/ fs' = fs
       \/ fs' = WriteTo(fs, Filename(today), Truncated)
    /\ Raise("io")
    /\ UNCHANGED <<sky, tieUp, today, i, all_transits, folder_id, creds_json,
                   remote, nextId, listed, remoteLog, wrote, fsAtStart,
                   remote0, runs>>

\* folder_id = os.environ.get('FOLDER_ID'); if folder_id: upload_to_drive(...)
GetFolder ==
    /\ pc = "getenv"
    /\ \E v \in FolderValues :
          /\ folder_id' = v
          /\ IF v = "set"
             THEN /\ pc' = "creds"
                  /\ UNCHANGED <<outcome>>
             ELSE /\ pc' = "done"
                  /\ outcome' = "success"
    /\ UNCHANGED <<sky, tieUp, today, i, all_transits, creds_json, fs, remote,
                   nextId, listed, remoteLog, exc, wrote, fsAtStart, remote0,
                   runs>>

(***************************************************************************)
(* upload_to_drive.                                                        *)
(***************************************************************************)
\* creds_json = os.environ.get('GOOGLE_CREDENTIALS'); json.loads(creds_json);
\* the credentials and the service are built
LoadCreds ==
    /\ pc = "creds"
    /\ creds_json' = "valid"
    /\ pc' = "list"
    /\ UNCHANGED <<sky, tieUp, today, i, all_transits, folder_id, fs, remote,
                   nextId, listed, remoteLog, outcome, exc, wrote, fsAtStart,
                   remote0, runs>>

\* json.loads(None) raises TypeError; a blob that is no credential raises too
LoadCredsFail ==
    /\ pc = "creds"
    /\ \E v \in CredsValues \ {"valid"} :
          /\ creds_json' = v
          /\ Raise(IF v = "absent" THEN "TypeError" ELSE "ValueError")
    /\ UNCHANGED <<sky, tieUp, today, i, all_transits, folder_id, fs, remote,
                   nextId, listed, remoteLog, wrote, fsAtStart, remote0,
                   runs>>

\* service.files().list(...).execute() returns
ListFiles ==
    /\ pc = "list"
    /\ listed' = ListResult(remote)
    /\ remoteLog' =
           Append(remoteLog,
                  LogCall("list", {e.id : e \in ListResult(remote)}, TRUE))
    /\ pc' = IF ListResult(remote) = {} THEN "upload" ELSE "delete"
    /\ UNCHANGED <<sky, tieUp, today, i, all_transits, folder_id, creds_json,
                   fs, remote, nextId, outcome, exc, wrote, fsAtStart,
                   remote0, runs>>

\* the list call raises
ListFail ==
    /\ pc = "list"
    /\ remoteLog' = Append(remoteLog, LogCall("list", {}, FALSE))
    /\ Raise("HttpError")
    /\ UNCHANGED <<sky, tieUp, today, i, all_transits, folder_id, creds_json,
                   fs, remote, nextId, listed, wrote, fsAtStart, remote0,
                   runs>>

\* one iteration of the delete loop: delete(fileId=file['id']) returns
DeleteFile ==
    /\ pc = "delete"
    /\ \E file \in listed :
          /\ remote' = {e \in remote : e.id # file.id}
          /\ listed' = listed \ {file}
          /\ remoteLog' = Append(remoteLog, LogCall("delete", file.id, TRUE))
          /\ pc' = IF listed \ {file} = {} THEN "upload" ELSE "delete"
    /\ UNCHANGED <<sky, tieUp, today, i, all_transits, folder_id, creds_json,
                   fs, nextId, outcome, exc, wrote, fsAtStart, remote0, runs>>

\* DeleteFail with the exception caught: the loop goes on
DeleteFailSwallowed ==
    /\ pc = "delete"
    /\ \E file \in listed :
          /\ listed' = listed \ {file}
          /\ remoteLog' = Append(remoteLog, LogCall("delete", file.id, FALSE))
          /\ pc' = IF listed \ {file} = {} THEN "upload" ELSE "delete"
    /\ UNCHANGED <<sky, tieUp, today, i, all_transits, folder_id, creds_json,
                   fs, remote, nextId, outcome, exc, wrote, fsAtStart,
                   remote0, runs>>

\* one iteration of the delete loop: the delete call raises
DeleteFail ==
    /\ pc = "delete"
    /\ \E file \in listed :
          remoteLog' = Append(remoteLog, LogCall("delete", file.id, FALSE))
    /\ Raise("HttpError")
    /\ UNCHANGED <<sky, tieUp, today, i, all_transits, folder_id, creds_json,
                   fs, remote, nextId, listed, wrote, fsAtStart, remote0,
                   runs>>

\* the entry files().create(body=file_metadata, media_body=media) makes
NewEntry(id, date) == [id |-> id, parent |-> "target", name |-> Filename(date)]

\* MediaFileUpload(file_path); service.files().create(...).execute() returns
UploadFile ==
    /\ pc = "upload"
    /\ Filename(today) \in DOMAIN fs
    /\ remote' = remote \cup {NewEntry(nextId, today)}
    /\ nextId' = nextId + 1
    /\ remoteLog' = Append(remoteLog, LogCall("upload", nextId, TRUE))
    /\ pc' = "done"
    /\ outcome' = "success"
    /\ UNCHANGED <<sky, tieUp, today, i, all_transits, folder_id, creds_json,
                   fs, listed, exc, wrote, fsAtStart, remote0, runs>>

\* the create call raises
UploadFail ==
    /\ pc = "upload"
    /\ remoteLog' = Append(remoteLog, LogCall("upload", nextId, FALSE))
    /\ Raise("HttpError")
    /\ UNCHANGED <<sky, tieUp, today, i, all_transits, folder_id, creds_json,
                   fs, remote, nextId, listed, wrote, fsAtStart, remote0,
                   runs>>

\* the program is started again, the same day or the next
NewRun ==
    /\ pc = "done"
    /\ runs < MaxRuns
    /\ runs' = runs + 1
    /\ today' \in {today, NextDay(today)}
    /\ pc' = "loop"
    /\ i' = 0
    /\ all_transits' = <<>>
    /\ listed' = {}
    /\ remoteLog' = <<>>
    /\ outcome' = "running"
    /\ exc' = "none"
    /\ wrote' = FALSE
    /\ fsAtStart' = fs
    /\ folder_id' = "unread"
    /\ creds_json' = "unread"
    /\ UNCHANGED <<sky, tieUp, fs, remote, nextId, remote0>>

Next ==
    \/ CalcDay
    \/ CalcDayFail
    \/ WriteFile
    \/ WriteFail
    \/ GetFolder
    \/ LoadCreds
    \/ LoadCredsFail
    \/ ListFiles
    \/ ListFail
    \/ DeleteFile
    \/ DeleteFail
    \/ UploadFile
    \/ UploadFail
    \/ NewRun

Spec == Init /\ [][Next]_vars

(***************************************************************************)
(* calculate_transit applied on its own to one day of a sky.               *)
(***************************************************************************)
\* calculate_transit(today) returns
ApplyCalc ==
    /\ pc = "calc"
    /\ all_transits' = <<calculate_transit(sky, today, tieUp)>>
    /\ pc' = "calc_done"
    /\ UNCHANGED <<sky, tieUp, today, i, folder_id, creds_json, fs, remote,
                   nextId, listed, remoteLog, outcome, exc, wrote, fsAtStart,
                   remote0, runs>>

\* swe.calc_ut raises inside calculate_transit(today)
ApplyCalcFail ==
    /\ pc = "calc"
    /\ pc' = "calc_failed"
    /\ exc' = "ephemeris"
    /\ UNCHANGED <<sky, tieUp, today, i, all_transits, folder_id, creds_json,
                   fs, remote, nextId, listed, remoteLog, outcome, wrote,
                   fsAtStart, remote0, runs>>

NextCalc ==
    \/ ApplyCalc
    \/ ApplyCalcFail

SpecCalc == InitCalc /\ [][NextCalc]_vars

(***************************************************************************)
(* Properties of calculate_transit and calculate_aspects.                  *)
(***************************************************************************)
\* the DayTransit entries built so far
Transits == {all_transits[k] : k \in DOMAIN all_transits}

\* the aspect table as the specification states it: name, angle, orb (degrees)
StatedAspects ==
    <<<<"conjunction", 0, 8>>, <<"sextile", 60, 6>>, <<"square", 90, 8>>,
      <<"trine", 120, 8>>, <<"opposition", 180, 8>>>>

\* the stated aspect types within whose orb the separation d (stored units) is
WithinOrb(d) ==
    {k \in DOMAIN StatedAspects :
        Abs(d - StatedAspects[k][2] * StoredPerDeg)
            <= StatedAspects[k][3] * StoredPerDeg}

First(S) == CHOOSE k \in S : \A l \in S : k <= l

\* the positions in t.aspects of the records of the pair of bodies (a, b)
RecordsOf(t, a, b) ==
    {k \in DOMAIN t.aspects :
        /\ t.aspects[k].planet1 = PLANETS[a]
        /\ t.aspects[k].planet2 = PLANETS[b]}

StoredSeparation(t, a, b) ==
    Separation(t.planets[PLANETS[a]].longitude, t.planets[PLANETS[b]].longitude)

\* the recorded orb (hundredths) is the deviation dev (stored units) itself
OrbExact(orb, dev) == orb * StoredPerHund = dev

\* the recorded orb is a hundredth nearest to the deviation dev
OrbRounded(orb, dev) == 2 * Abs(orb * StoredPerHund - dev) <= StoredPerHund

\* the pair (a, b) of t has no record when no stated type is within orb, and
\* otherwise exactly one record, of the first stated type within orb, whose
\* orb is the deviation itself (exact) or the deviation rounded
FirstMatchRecorded(t, a, b, exact) ==
    LET d == StoredSeparation(t, a, b)
        W == WithinOrb(d)
        R == RecordsOf(t, a, b)
    IN  IF W = {} THEN R = {}
        ELSE \E r \in R :
                LET dev == Abs(d - StatedAspects[First(W)][2] * StoredPerDeg)
                IN  /\ R = {r}
                    /\ t.aspects[r].aspect = StatedAspects[First(W)][1]
                    /\ IF exact THEN OrbExact(t.aspects[r].orb, dev)
                       ELSE OrbRounded(t.aspects[r].orb, dev)

\* C1 as stated: every pair of bodies gets exactly the record of the first
\* aspect type, in the order conjunction, sextile, square, trine, opposition,
\* whose angle is within its orb of the separation d, with recorded orb
\* |d - angle|, and no record when no type is within orb.
C1_FirstMatchExactOrb ==
    \A t \in Transits : \A a, b \in 1..Len(PLANETS) :
        a < b => FirstMatchRecorded(t, a, b, TRUE)

\* C1 amended: as C1, with the recorded orb being |d - angle| rounded to two
\* decimal places (the hundredth nearest to |d - angle|).
C1_FirstMatchRoundedOrb ==
    \A t \in Transits : \A a, b \in 1..Len(PLANETS) :
        a < b => FirstMatchRecorded(t, a, b, FALSE)

\* a day on which Sun and Moon are 173 degrees apart and recorded in opposition
\* with orb 7.00, Sun and Mercury are within no orb and have no record, and
\* some pair has a deviation that is no whole number of hundredths
C1_Witness ==
    /\ pc = "calc_done"
    /\ \E t \in Transits :
          /\ StoredSeparation(t, 1, 2) = 173 * StoredPerDeg
          /\ \E r \in RecordsOf(t, 1, 2) :
                /\ t.aspects[r].aspect = "opposition"
                /\ t.aspects[r].orb = 7 * HundPerDeg
          /\ WithinOrb(StoredSeparation(t, 1, 3)) = {}
          /\ RecordsOf(t, 1, 3) = {}
          /\ \E k \in DOMAIN t.aspects :
                LET a == BodyIndex(t.aspects[k].planet1)
                    b == BodyIndex(t.aspects[k].planet2)
                    d == StoredSeparation(t, a, b)
                IN  \A n \in WithinOrb(d) :
                       Abs(d - StatedAspects[n][2] * StoredPerDeg)
                           % StoredPerHund # 0

\* C2: the list of aspect records names only bodies of the input, planet1
\* strictly before planet2 in the order of PLANETS, and the records are in
\* pair-iteration order (by planet1, then by planet2), strictly, so that no
\* unordered pair of bodies has two records.
C2_OnePerPairInOrder ==
    \A t \in Transits :
        /\ \A k \in DOMAIN t.aspects :
              /\ t.aspects[k].planet1 \in DOMAIN t.planets
              /\ t.aspects[k].planet2 \in DOMAIN t.planets
              /\ BodyIndex(t.aspects[k].planet1)
                     < BodyIndex(t.aspects[k].planet2)
        /\ \A k, l \in DOMAIN t.aspects :
              k < l =>
                LET a1 == BodyIndex(t.aspects[k].planet1)
                    b1 == BodyIndex(t.aspects[k].planet2)
                    a2 == BodyIndex(t.aspects[l].planet1)
                    b2 == BodyIndex(t.aspects[l].planet2)
                IN  a1 < a2 \/ (a1 = a2 /\ b1 < b2)

\* a day with at least three records, two of them with the same planet1
C2_Witness ==
    /\ pc = "calc_done"
    /\ \E t \in Transits :
          /\ Len(t.aspects) >= 3
          /\ \E k \in DOMAIN t.aspects :
                /\ k + 1 \in DOMAIN t.aspects
                /\ t.aspects[k].planet1 = t.aspects[k + 1].planet1
                /\ t.aspects[k].planet1 = "Sun"

\* C3: for stored longitudes L1, L2 in [0, 360) the separation computed by
\* calculate_aspects is in [0, 180] and is the same for (L1, L2) and (L2, L1).
C3_SeparationRangeSymmetric ==
    \A t \in Transits : \A n1, n2 \in DOMAIN t.planets :
        LET L1 == t.planets[n1].longitude
            L2 == t.planets[n2].longitude
        IN  (/\ L1 >= 0 /\ L1 < 360 * StoredPerDeg
             /\ L2 >= 0 /\ L2 < 360 * StoredPerDeg)
            => /\ Separation(L1, L2) >= 0
               /\ Separation(L1, L2) <= 180 * StoredPerDeg
               /\ Separation(L1, L2) = Separation(L2, L1)

\* a day on which Sun is at 356 and Moon at 0: the absolute difference exceeds
\* 180 and the separation is 4, in both orders
C3_Witness ==
    /\ pc = "calc_done"
    /\ \E t \in Transits :
          /\ t.planets["Sun"].longitude = 356 * StoredPerDeg
          /\ t.planets["Moon"].longitude = 0
          /\ Separation(356 * StoredPerDeg, 0) = 4 * StoredPerDeg
          /\ Separation(0, 356 * StoredPerDeg) = 4 * StoredPerDeg

\* the calendar date of a DayTransit
DateOf(t) == [y |-> t.date[1], m |-> t.date[2], d |-> t.date[3]]

\* C4 as stated: in every DayTransit each of the 11 bodies has one
\* PositionRecord whose stored longitude is in [0, 360), whose stored degree
\* within the sign is in [0, 30), and whose sign is the one at index
\* floor(longitude / 30) of the ephemeris longitude.
C4_StoredPositionsInRange ==
    \A t \in Transits :
        /\ DOMAIN t.planets = {PLANETS[k] : k \in 1..Len(PLANETS)}
        /\ \A k \in 1..Len(PLANETS) :
              LET rec == t.planets[PLANETS[k]]
                  lon == Ephemeris(sky, JulDay(DateOf(t)), k).lon
              IN  /\ rec.longitude >= 0
                  /\ rec.longitude < 360 * StoredPerDeg
                  /\ rec.degree >= 0
                  /\ rec.degree < 30 * HundPerDeg
                  /\ lon \div (30 * RawPerDeg) \in 0..11
                  /\ rec.sign = SIGNS[lon \div (30 * RawPerDeg) + 1]

(***************************************************************************)
(* Properties of main and upload_to_drive.                                 *)
(***************************************************************************)
\* the output file of this run is present and holds the whole batch
LocalFileValid ==
    /\ Filename(today) \in DOMAIN fs
    /\ fs[Filename(today)] = Dump(all_transits)

\* C5 as stated: a run that finds the credential blob or the folder
\* identifier absent writes a valid local file, makes no remote call and
\* ends successfully.
C5_AbsentConfigIsLocalOnly ==
    (pc = "done" /\ (folder_id = "absent" \/ creds_json = "absent"))
        => /\ outcome = "success"
           /\ exc = "none"
           /\ wrote
           /\ LocalFileValid
           /\ remoteLog = <<>>

\* C6: whenever a remote operation has been made, the local write of this run
\* has completed before it, and the file written is still present with the
\* content written, also after a remote operation has failed.
C6_RemoteAfterLocalWrite ==
    remoteLog # <<>> => (wrote /\ LocalFileValid)

\* a second run, on the day after the first, whose upload fails after a delete
C6_Witness ==
    /\ pc = "done"
    /\ runs = 2
    /\ Len(remoteLog) = 3
    /\ remoteLog[2].op = "delete"
    /\ remoteLog[3].op = "upload"
    /\ ~remoteLog[3].ok
    /\ outcome = "error"
    /\ Cardinality(DOMAIN fs) = 2
    /\ LocalFileValid

\* C7: when an ephemeris lookup fails the run ends in error having written
\* nothing: the local files are those the run started with, the write was not
\* made, and no remote call was made.
C7_EphemerisFailureWritesNothing ==
    exc = "ephemeris"
        => /\ pc = "done"
           /\ outcome = "error"
           /\ ~wrote
           /\ fs = fsAtStart
           /\ remoteLog = <<>>

\* a lookup fails on the fourth day of a second run, after a first run that
\* wrote its file
C7_Witness ==
    /\ exc = "ephemeris"
    /\ runs = 2
    /\ i = 3
    /\ Len(all_transits) = 3
    /\ fsAtStart # <<>>

\* C8: when main reaches serialization, and in the file it writes, the batch
\* holds exactly 7 entries whose dates are the 7 consecutive calendar dates
\* from the start date on, in that order, and the file name carries the start
\* date as YYYYMMDD.
C8_SevenConsecutiveDates ==
    (pc = "write" \/ wrote)
        => /\ Len(all_transits) = 7
           /\ all_transits[1].date = <<today.y, today.m, today.d>>
           /\ \A k \in 1..7 :
                 LET date == DateOf(all_transits[k])
                 IN  /\ date.m \in 1..12
                     /\ date.d \in 1..DaysInMonth(date.y, date.m)
                     /\ JulDay(date) = JulDay(today) + (k - 1)
           /\ wrote =>
                 \E n \in DOMAIN fs :
                    /\ n.stem = <<"transit_">>
                    /\ n.stamp = today.y * 10000 + today.m * 100 + today.d
                    /\ n.ext = ".json"
                    /\ fs[n].doc = all_transits

\* the batch of a run started on 2024-12-28 is written: it ends on 2025-01-03
C8_Witness ==
    /\ wrote
    /\ today = [y |-> 2024, m |-> 12, d |-> 28]
    /\ Len(all_transits) = 7
    /\ all_transits[4].date = <<2024, 12, 31>>
    /\ all_transits[7].date = <<2025, 1, 3>>

\* C9: the remote calls of a run are one list, then deletes of distinct listed
\* entries, then at most one upload; the upload comes only after a successful
\* list and a successful delete of every listed entry; a failed call is the
\* last call of the run, which then has ended in error; a publish that ends
\* in success has made exactly one upload, as its last call.
C9_ListDeleteUploadOrder ==
    LET L == remoteLog
    IN  /\ \A k \in DOMAIN L :
              /\ (L[k].op = "list") <=> (k = 1)
              /\ L[k].op \in {"list", "delete", "upload"}
              /\ ~L[k].ok => (k = Len(L) /\ pc = "done" /\ outcome = "error")
              /\ L[k].op = "delete" =>
                    /\ L[k].target \in L[1].target
                    /\ \A j \in 2..(k - 1) : L[j].target # L[k].target
              /\ L[k].op = "upload" =>
                    /\ k = Len(L)
                    /\ k = Cardinality(L[1].target) + 2
                    /\ \A j \in 1..(k - 1) : L[j].ok
                    /\ \A j \in 2..(k - 1) : L[j].op = "delete"
                    /\ {L[j].target : j \in 2..(k - 1)} = L[1].target
        /\ (pc = "done" /\ outcome = "success" /\ folder_id = "set")
              => (L # <<>> /\ L[Len(L)].op = "upload" /\ L[Len(L)].ok)

\* a publish that lists two entries and fails on the second delete
C9_Witness ==
    /\ pc = "done"
    /\ outcome = "error"
    /\ Len(remoteLog) = 3
    /\ Cardinality(remoteLog[1].target) = 2
    /\ remoteLog[2].op = "delete"
    /\ remoteLog[2].ok
    /\ remoteLog[3].op = "delete"
    /\ ~remoteLog[3].ok
    /\ \E file \in remote : listed = {file} /\ file.id = remoteLog[3].target

\* C10: after a publish that completes without failure the target folder
\* holds exactly one entry whose name contains 'transit_', the one this run
\* uploaded; and no entry of the store that the query does not select (its
\* name does not contain 'transit_', or it is in another folder) is ever
\* deleted.
C10_ExactlyOnePublished ==
    /\ \A e \in remote0 :
          (~NameContains(e.name) \/ e.parent # "target") => e \in remote
    /\ (pc = "done" /\ outcome = "success" /\ folder_id = "set")
          => \E e \in remote :
                /\ {x \in remote : x.parent = "target" /\ NameContains(x.name)}
                       = {e}
                /\ e.name = Filename(today)
                /\ e.id = remoteLog[Len(remoteLog)].target

\* a second successful publish, the day after a first successful one, of a
\* store that held a matching entry and one the query does not select
C10_Witness ==
    /\ pc = "done"
    /\ outcome = "success"
    /\ folder_id = "set"
    /\ runs = 2
    /\ Cardinality(DOMAIN fs) = 2
    /\ nextId = 102
    /\ Cardinality(remote0) = 2
    /\ \E e \in remote0 : e.parent = "target" /\ NameContains(e.name)
    /\ \E e \in remote0 : ~NameContains(e.name)
    /\ Cardinality(remote) = 2

====
